---- MODULE Spec2Model ----
(***************************************************************************)
(* Model of the bundle-handler command line tool: analyzeFile,             *)
(* removePackageFromFile, formatFile and bundlePackages acting on one      *)
(* source file, its timestamped backups and the temporary bundle entry     *)
(* file, the getPackageVersion helper, and the command dispatcher.         *)
(*                                                                         *)
(* Text is modelled line by line.  A line is a record                      *)
(*   [k |-> kind, srcs |-> module specifiers on the line,                  *)
(*    w |-> per specifier, the number of "/* removed ... */" wrappers the  *)
(*          regex replacement has put around its import/require,           *)
(*    h |-> 1 when the "const x = require(..)" head was wrapped]           *)
(* with these kinds and the text each stands for:                          *)
(*   import   import x from 'S';                                           *)
(*   var      const a = require('S');   or   const a = require('S'), b = require('T'); *)
(*   reqnum   require(1);                                                  *)
(*   modmap   ({"./node_modules/S/index.js": 0});                          *)
(*   other    x = 1;                                                       *)
(*   bad      var = ;            (a syntax error)                          *)
(*   webpack  /* webpack */                                                *)
(*   blank    an empty line                                                *)
(*   pad      WebpackLineLimit - 1 empty lines                             *)
(***************************************************************************)
EXTENDS Integers, Sequences, FiniteSets, TLC

\* ------------------------------------------------------------------ bounds
MaxLines == 2
MaxBackups == 1
MaxWraps == 1
MaxPkgs == 1

\* ------------------------------------------------------- program constants
WebpackLineLimit == 100
MinPackageLen == 2
RemovedMarkLen == 14

\* ------------------------------------------------------------ package names
\* Names are character sequences so that String.includes is computed.
NameQ == <<"q">>
NameQS == <<"q", "s">>
Names == {NameQ, NameQS}

Includes(s, p) ==
  \E i \in 0..(Len(s) - Len(p)) : SubSeq(s, i + 1, i + Len(p)) = p

RECURSIVE SumSeq(_)
SumSeq(s) == IF s = <<>> THEN 0 ELSE Head(s) + SumSeq(Tail(s))

SelectIdx(s, Keep(_)) ==
  LET F[i \in 0..Len(s)] ==
        IF i = 0 THEN <<>>
        ELSE IF Keep(i) THEN Append(F[i - 1], s[i]) ELSE F[i - 1]
  IN F[Len(s)]

\* ------------------------------------------------------------------- lines
Plain(kind) == [k |-> kind, srcs |-> <<>>, w |-> <<>>, h |-> 0]
ImportLine(s) == [k |-> "import", srcs |-> <<s>>, w |-> <<0>>, h |-> 0]
VarLine(ss) == [k |-> "var", srcs |-> ss, w |-> [i \in 1..Len(ss) |-> 0], h |-> 0]
ModMapLine(s) == [k |-> "modmap", srcs |-> <<s>>, w |-> <<0>>, h |-> 0]

SourceLines ==
  {ImportLine(s) : s \in Names}
    \cup {VarLine(<<NameQS>>), VarLine(<<NameQ, NameQS>>), ModMapLine(NameQS)}
    \cup {Plain("reqnum"), Plain("other"), Plain("bad"), Plain("webpack"), Plain("pad")}

\* the value of a path at which no file exists (kept comparable with texts)
NoFile == <<Plain("ENOENT")>>

Files == UNION {[1..n -> SourceLines] : n \in 0..MaxLines}

Wraps(l) == l.h + SumSeq(l.w)

KindLen(l) ==
  CASE l.k = "import" -> 17 + Len(l.srcs[1])
    [] l.k = "var" -> 7 + SumSeq([i \in 1..Len(l.srcs) |-> 15 + Len(l.srcs[i])])
                        + 2 * (Len(l.srcs) - 1)
    [] l.k = "reqnum" -> 11
    [] l.k = "modmap" -> 34 + Len(l.srcs[1])
    [] l.k = "other" -> 6
    [] l.k = "bad" -> 7
    [] l.k = "webpack" -> 13
    [] l.k = "blank" -> 0
    [] l.k = "pad" -> WebpackLineLimit - 2

LineLen(l) == KindLen(l) + RemovedMarkLen * Wraps(l)

\* code.length
TextLen(t) ==
  IF t = <<>> THEN 0
  ELSE SumSeq([i \in 1..Len(t) |-> LineLen(t[i])]) + (Len(t) - 1)

\* code.split('\n').length
LineCount(t) ==
  IF t = <<>> THEN 1
  ELSE SumSeq([i \in 1..Len(t) |-> IF t[i].k = "pad" THEN WebpackLineLimit - 1 ELSE 1])

\* /webpack/i.test(code)
HasWebpackMarker(t) == \E i \in 1..Len(t) : t[i].k = "webpack"

\* the package name occurs somewhere in the line's text
Mentions(l, pkg) == \E i \in 1..Len(l.srcs) : Includes(l.srcs[i], pkg)

\* ------------------------------------------------------------ parser view
\* JavaScript comments do not nest: one wrapper around a whole import is a
\* comment, anything more leaves a dangling "*/"; a wrapped require leaves
\* "const a = ;".
LineParses(l) ==
  CASE l.k = "bad" -> FALSE
    [] l.k = "import" -> Wraps(l) <= 1
    [] l.k = "var" -> Wraps(l) = 0
    [] OTHER -> TRUE

Parses(t) == \A i \in 1..Len(t) : LineParses(t[i])

\* a line that contributes import/require nodes to the tree
IsImportNode(l) == l.k = "import" /\ Wraps(l) = 0 /\ LineParses(l)
IsVarNode(l) == l.k = "var" /\ LineParses(l)

\* generate(ast): statements and comments are printed, blank lines are not
\* part of the tree
Generate(t) == SelectIdx(t, LAMBDA i : t[i].k \notin {"blank", "pad"})

\* ------------------------------------------------- removal: structural step
\* position of the first require(1) call: its argument value is truthy and
\* has no includes method, so the force-mode visitor throws there
FirstThrow(t) ==
  IF \E i \in 1..Len(t) : t[i].k = "reqnum" /\ LineParses(t[i])
  THEN CHOOSE i \in 1..Len(t) :
         /\ t[i].k = "reqnum"
         /\ \A j \in 1..(i - 1) : t[j].k # "reqnum"
  ELSE Len(t) + 1

\* force mode: nodes pushed on nodesToRemove by one line (substring match);
\* a matching declarator counts twice, as declarator and as call expression
ForceMarks(l, pkg) ==
  IF IsImportNode(l) /\ Includes(l.srcs[1], pkg) THEN 1
  ELSE IF IsVarNode(l)
       THEN 2 * Cardinality({i \in 1..Len(l.srcs) : Includes(l.srcs[i], pkg)})
       ELSE 0

ForceMarkCount(t, pkg) ==
  SumSeq([i \in 1..(FirstThrow(t) - 1) |-> ForceMarks(t[i], pkg)])

\* force mode: the line after path.remove() of its marked nodes
ForceStrip(l, pkg) ==
  IF IsVarNode(l)
  THEN LET keep == SelectIdx(l.srcs, LAMBDA i : ~Includes(l.srcs[i], pkg))
       IN VarLine(keep)
  ELSE l

ForceRemoveNodes(t, pkg) ==
  LET gone(i) == \/ IsImportNode(t[i]) /\ Includes(t[i].srcs[1], pkg)
                 \/ IsVarNode(t[i]) /\ ForceStrip(t[i], pkg).srcs = <<>>
      kept == SelectIdx(t, LAMBDA i : ~gone(i))
  IN [i \in 1..Len(kept) |-> ForceStrip(kept[i], pkg)]

\* mutant: substring match, as in force mode
NormalMatch_Substring(l, pkg) ==
  \/ IsImportNode(l) /\ Includes(l.srcs[1], pkg)
  \/ IsVarNode(l) /\ \E i \in 1..Len(l.srcs) : Includes(l.srcs[i], pkg)

\* normal mode: exact match; a matching require takes its whole statement
NormalMatch(l, pkg) ==
  \/ IsImportNode(l) /\ l.srcs[1] = pkg
  \/ IsVarNode(l) /\ \E i \in 1..Len(l.srcs) : l.srcs[i] = pkg

NormalMatchCount(t, pkg) == Cardinality({i \in 1..Len(t) : NormalMatch(t[i], pkg)})

\* mutant: the traversal stops after the first removal
NormalRemoveNodes_FirstOnly(t, pkg) ==
  SelectIdx(t, LAMBDA i : ~(/\ NormalMatch(t[i], pkg)
                            /\ \A j \in 1..(i - 1) : ~NormalMatch(t[j], pkg)))

NormalRemoveNodes(t, pkg) == SelectIdx(t, LAMBDA i : ~NormalMatch(t[i], pkg))

\* ------------------------------------------------- removal: regex strategies
\* conservativePatterns[n] applied to one line: '/* removed $1 */'
ConservativeLine(n, l, pkg) ==
  CASE n = 1 /\ l.k = "import" /\ Includes(l.srcs[1], pkg) ->
         [l EXCEPT !.w[1] = @ + 1]
    [] n = 2 /\ l.k = "var" /\ l.w[1] = 0 /\ Includes(l.srcs[1], pkg) ->
         [l EXCEPT !.h = @ + 1]
    [] n = 3 /\ l.k = "var" ->
         [l EXCEPT !.w = [i \in 1..Len(l.srcs) |->
                            IF Includes(l.srcs[i], pkg) THEN l.w[i] + 1 ELSE l.w[i]]]
    [] OTHER -> l

ConservativeReplace(n, t, pkg) == [i \in 1..Len(t) |-> ConservativeLine(n, t[i], pkg)]

\* aggressivePatterns[n] applied to one line: replaced by ''
AggressiveLine(n, l, pkg) ==
  CASE n = 1 /\ Mentions(l, pkg) -> Plain("blank")
    [] n = 2 /\ Mentions(l, pkg) -> Plain("other")
    [] n = 3 /\ Mentions(l, pkg) /\ l.k \in {"var", "modmap"} -> Plain("other")
    [] OTHER -> l

AggressiveReplace(n, t, pkg) == [i \in 1..Len(t) |-> AggressiveLine(n, t[i], pkg)]

\* conservativePatterns.forEach from pattern n on: st is <<code, removed, removedCount>>
RECURSIVE ApplyConservative(_, _, _)
ApplyConservative(n, st, pkg) ==
  IF n > 3 THEN st
  ELSE LET after == ConservativeReplace(n, st[1], pkg)
           hit == TextLen(after) # TextLen(st[1])
       IN ApplyConservative(n + 1,
                            <<after, st[2] \/ hit, IF hit THEN st[3] + 1 ELSE st[3]>>, pkg)

\* aggressivePatterns.forEach from pattern n on
RECURSIVE ApplyAggressive(_, _, _)
ApplyAggressive(n, st, pkg) ==
  IF n > 4 THEN st
  ELSE LET after == AggressiveReplace(n, st[1], pkg)
           hit == TextLen(after) # TextLen(st[1])
       IN ApplyAggressive(n + 1,
                          <<after, st[2] \/ hit, IF hit THEN st[3] + 1 ELSE st[3]>>, pkg)

\* the three whitespace replacements after the aggressive patterns
CleanupWhitespace(t) == SelectIdx(t, LAMBDA i : t[i].k \notin {"blank", "pad"})

\* ------------------------------------------------------------- analyzeFile
\* line 15
LooksLikeWebpack(t) == LineCount(t) < WebpackLineLimit /\ HasWebpackMarker(t)

\* lines 28-43: sources of import declarations and string-literal require calls
AstImports(t) == {t[i].srcs[1] : i \in {j \in 1..Len(t) : IsImportNode(t[j])}}

\* mutant: only the first declarator of a statement is looked at
AstRequires_FirstOnly(t) == {t[i].srcs[1] : i \in {j \in 1..Len(t) : IsVarNode(t[j])}}

AstRequires(t) ==
  UNION {{t[i].srcs[n] : n \in 1..Len(t[i].srcs)} : i \in {j \in 1..Len(t) : IsVarNode(t[j])}}

\* \w over the characters of the model's names
IsWordChar(c) == c \in {"q", "s"}

StartsWith(p, pre) == Len(p) >= Len(pre) /\ SubSeq(p, 1, Len(pre)) = pre

\* lines 79-86
IsValidPackage(p) ==
  /\ p # <<>>
  /\ \A i \in 1..Len(p) : p[i] \notin {"(", "+", "{", "}"}
  /\ Len(p) >= MinPackageLen
  /\ ~(/\ p[1] = "." /\ IsWordChar(p[2])
       /\ ~StartsWith(p, <<".", "/">>)
       /\ ~StartsWith(p, <<".", ".", "/">>))

\* lines 72-96: the regular expressions see the text, comments included
RegexImportMatches(t) == {t[i].srcs[1] : i \in {j \in 1..Len(t) : t[j].k = "import"}}

RegexRequireMatches(t) ==
  UNION {{t[i].srcs[n] : n \in 1..Len(t[i].srcs)} : i \in {j \in 1..Len(t) : t[j].k = "var"}}

extractPackagesWithRegex(t) ==
  {p \in RegexImportMatches(t) \cup RegexRequireMatches(t) : IsValidPackage(p)}

\* lines 104-110: the text captured after "./node_modules/" and its
\* reduction to a package name
ModulePath(l) == l.srcs[1] \o <<"/", "index.js">>

RECURSIVE SplitSlash(_)
SplitSlash(p) ==
  IF \E i \in 1..Len(p) : p[i] = "/"
  THEN LET i == CHOOSE i \in 1..Len(p) : p[i] = "/" /\ \A j \in 1..(i - 1) : p[j] # "/"
       IN <<SubSeq(p, 1, i - 1)>> \o SplitSlash(SubSeq(p, i + 1, Len(p)))
  ELSE <<p>>

WebpackName(m) ==
  IF \E i \in 1..Len(m) : m[i] = "/"
  THEN LET parts == SplitSlash(m)
       IN IF parts[1] # <<>> /\ parts[1][1] = "@"
          THEN parts[1] \o <<"/">> \o parts[2]
          ELSE parts[1]
  ELSE m

extractWebpackModules(t) ==
  {WebpackName(ModulePath(t[i])) : i \in {j \in 1..Len(t) : t[j].k = "modmap"}}

\* fs.unlinkSync of the i-th backup file
Unlink(bs, i) == SelectIdx(bs, LAMBDA j : j # i)

MaxWrapsIn(t) ==
  IF t = <<>> THEN 0
  ELSE CHOOSE m \in {Wraps(t[i]) : i \in 1..Len(t)} :
         \A i \in 1..Len(t) : Wraps(t[i]) <= m

\* ---------------------------------------------------------------- strings
UpperCase == <<"A", "B", "C", "D", "E", "F", "G", "H", "I", "J", "K", "L", "M",
               "N", "O", "P", "Q", "R", "S", "T", "U", "V", "W", "X", "Y", "Z">>
LowerCase == <<"a", "b", "c", "d", "e", "f", "g", "h", "i", "j", "k", "l", "m",
               "n", "o", "p", "q", "r", "s", "t", "u", "v", "w", "x", "y", "z">>

ToLowerChar(c) ==
  IF \E i \in 1..Len(UpperCase) : UpperCase[i] = c
  THEN LowerCase[CHOOSE i \in 1..Len(UpperCase) : UpperCase[i] = c]
  ELSE c

\* String.prototype.toLowerCase
toLowerCase(s) == [i \in 1..Len(s) |-> ToLowerChar(s[i])]

EndsWith(p, suf) ==
  Len(p) >= Len(suf) /\ SubSeq(p, Len(p) - Len(suf) + 1, Len(p)) = suf

\* -------------------------------------------------------------- formatFile
\* the paths formatFile is called with
PathJs == <<"a", ".", "j", "s">>
PathTs == <<"a", ".", "t", "s">>
PathUpperTs == <<"a", ".", "T", "S">>
FilePaths == {PathJs, PathTs, PathUpperTs}

\* filePath.split('.').pop(): the text after the last dot, the whole path
\* when it has none
LastDotSegment(p) ==
  IF \E i \in 1..Len(p) : p[i] = "."
  THEN LET i == CHOOSE i \in 1..Len(p) : p[i] = "." /\ \A j \in (i + 1)..Len(p) : p[j] # "."
       IN SubSeq(p, i + 1, Len(p))
  ELSE p

\* lines 187-188
ParserForExt(p) ==
  IF toLowerCase(LastDotSegment(p)) = <<"t", "s">> THEN "typescript" ELSE "babel"

Parsers == {"babel", "typescript"}

\* what prettier.resolveConfig can give: it throws, it finds no
\* configuration (null), or it finds one, with or without a parser
Configs ==
  [kind : {"throws", "null"}, parser : {"none"}]
    \cup [kind : {"config"}, parser : Parsers \cup {"none"}]

\* lines 172-183
DefaultOptions == [parser |-> "babel", style |-> "default"]

\* lines 163-189: the options after resolution and "ensure parser is set"
ResolveOptions(cfg, p) ==
  LET o == IF cfg.kind = "config"
           THEN [parser |-> cfg.parser, style |-> "project"]
           ELSE DefaultOptions
  IN IF o.parser = "none" THEN [o EXCEPT !.parser = ParserForExt(p)] ELSE o

\* whether prettier.format may throw: always on a syntax error, never for
\* the general-purpose parser on text that parses; a dialect parser may
\* reject text the general-purpose parser accepts
FormatThrows(parser, t) ==
  IF ~Parses(t) THEN {TRUE}
  ELSE IF parser = "babel" THEN {FALSE}
  ELSE BOOLEAN

\* the text prettier prints: statements and comments are kept, blank lines
\* at either end are dropped and a run of blank lines inside becomes one
Prettify(t) ==
  LET b(i) == t[i].k \in {"blank", "pad"}
      u == [i \in 1..Len(t) |-> IF b(i) THEN Plain("blank") ELSE t[i]]
  IN SelectIdx(u, LAMBDA i :
       \/ ~b(i)
       \/ /\ i > 1 /\ ~b(i - 1)
          /\ \E j \in (i + 1)..Len(t) : ~b(j))

\* the text terser prints with comments: false and compress on: comments,
\* blank lines and the side-effect free object literal statement are gone
Minified(t) ==
  SelectIdx(t, LAMBDA i :
    /\ t[i].k \notin {"blank", "pad", "webpack", "modmap"}
    /\ ~(t[i].k = "import" /\ Wraps(t[i]) > 0))

\* ------------------------------------------------------ getPackageVersion
MinNameLen == 2
MaxNameLen == 214

\* \s
WhitespaceChars == {" ", "\t", "\n", "\r"}

\* line 315: the characters of a name made of symbols and digits only
\* ("backtick" stands for the grave accent character)
SymbolChars ==
  {"0", "1", "2", "3", "4", "5", "6", "7", "8", "9",
   "+", "-", "*", "/", "=", "<", ">", "!", "&", "|", "^", "%", "(", ")",
   "{", "}", "[", "]", ",", ".", ";", ":", "?", "~", "backtick", "#", "$", "\\"}

\* line 319, matched without regard to case at the start of the name
KnownPrefixes ==
  {<<"j", "q", "u", "e", "r", "y">>, <<"l", "o", "d", "a", "s", "h">>,
   <<"m", "o", "m", "e", "n", "t">>, <<"r", "e", "a", "c", "t">>,
   <<"v", "u", "e">>, <<"a", "n", "g", "u", "l", "a", "r">>,
   <<"b", "o", "o", "t", "s", "t", "r", "a", "p">>,
   <<"e", "x", "p", "r", "e", "s", "s">>, <<"a", "x", "i", "o", "s">>,
   <<"w", "e", "b", "p", "a", "c", "k">>, <<"b", "a", "b", "e", "l">>,
   <<"e", "s", "l", "i", "n", "t">>}

\* line 320, matched after a leading "@"
KnownScopes ==
  {<<"b", "a", "b", "e", "l">>, <<"t", "y", "p", "e", "s">>,
   <<"t", "y", "p", "e", "s", "c", "r", "i", "p", "t">>,
   <<"a", "n", "g", "u", "l", "a", "r">>, <<"v", "u", "e">>,
   <<"r", "e", "a", "c", "t">>}

\* line 321, matched after a "." at the end of the name
KnownExtensions ==
  {<<"j", "s">>, <<"t", "s">>, <<"c", "s", "s">>, <<"s", "c", "s", "s">>,
   <<"l", "e", "s", "s">>, <<"n", "e", "t">>}

\* line 322, matched after a "-" at the end of the name
KnownSuffixes ==
  {<<"j", "s">>, <<"t", "s">>, <<"c", "s", "s">>, <<"s", "c", "s", "s">>,
   <<"p", "l", "u", "g", "i", "n">>, <<"l", "o", "a", "d", "e", "r">>,
   <<"c", "l", "i">>, <<"c", "o", "r", "e">>, <<"u", "t", "i", "l", "s">>,
   <<"d", "o", "m">>, <<"a", "p", "i">>, <<"n", "e", "t">>, <<"b", "s", "4">>,
   <<"b", "u", "t", "t", "o", "n", "s">>,
   <<"a", "u", "t", "o", "f", "i", "l", "l">>,
   <<"r", "e", "s", "p", "o", "n", "s", "i", "v", "e">>}

\* line 323, matched without regard to case at the start of the name
KnownLibraries ==
  {<<"d", "a", "t", "a", "t", "a", "b", "l", "e", "s">>,
   <<"p", "o", "p", "p", "e", "r">>, <<"u", "t", "i", "l">>,
   <<"s", "t", "r", "e", "a", "m">>, <<"p", "r", "i", "s", "m">>}

\* lines 318-326: knownPatterns.some(pattern => pattern.test(name))
MatchesKnownPattern(name) ==
  \/ \E w \in KnownPrefixes : StartsWith(toLowerCase(name), w)
  \/ \E w \in KnownScopes : StartsWith(name, <<"@">> \o w)
  \/ \E w \in KnownExtensions : EndsWith(name, <<".">> \o w)
  \/ \E w \in KnownSuffixes : EndsWith(name, <<"-">> \o w)
  \/ \E w \in KnownLibraries : StartsWith(toLowerCase(name), w)

\* lines 309-327
isLikelyPackageName(name) ==
  IF name = <<>> THEN FALSE
  ELSE IF Len(name) < MinNameLen \/ Len(name) > MaxNameLen THEN FALSE
  ELSE IF \E i \in 1..Len(name) : name[i] \in WhitespaceChars THEN FALSE
  ELSE IF \A i \in 1..Len(name) : name[i] \in SymbolChars THEN FALSE
  ELSE MatchesKnownPattern(name)

\* the names getPackageVersion is asked about
LongName(n) == <<"v", "u", "e">> \o [i \in 1..(n - 3) |-> "a"]

PackageNames ==
  {<<"q">>,
   <<"c", "h", "a", "l", "k">>,
   <<"v", "u", "e">>,
   <<"V", "u", "e">>,
   <<"@", "v", "u", "e", "/", "x">>,
   <<"@", "x", "/", "y">>,
   <<"q", ".", "j", "s">>,
   <<"q", "-", "c", "l", "i">>,
   <<"v", "u", "e", " ", "x">>,
   <<"-", "-">>,
   <<"1", ".", "5">>,
   LongName(MaxNameLen), LongName(MaxNameLen + 1)}

\* lines 267-278: node_modules/<name>, node_modules/@types/<name> and the
\* directory of NODE_PATH
Locations == <<"local", "types", "global">>
NoneInstalled == [l \in 1..Len(Locations) |-> "absent"]

\* what is at a candidate location: no package.json, one that is not JSON,
\* one without a version field, one with a version
Metadata == {"absent", "corrupt", "noversion", "ok"}

Environments == [1..Len(Locations) -> Metadata]

\* lines 267-301: the first candidate location that exists decides; the
\* require.resolve alternative throws in an ES module and finds nothing
FirstFound(env) ==
  IF \E i \in 1..Len(env) : env[i] # "absent"
  THEN CHOOSE i \in 1..Len(env) : env[i] # "absent" /\ \A j \in 1..(i - 1) : env[j] = "absent"
  ELSE 0

\* ------------------------------------------------------------------- state
VARIABLES
  file,          \* content of the target file, or NoFile
  backups,       \* contents of the existing backup files, in creation order
  tempEntry,     \* content of __temp_entry.js, or NoFile
  pc,            \* position of the running operation
  args,          \* arguments of the running operation
  originalCode, code, removed, removedCount, backupPath,
  result,        \* return value of the operation
  report,        \* the outcome message printed last
  hist,          \* what the running removal has done so far
  detected,      \* allPackages of analyzeFile
  parserCalled,  \* analyzeFile called parse
  lastRemoved,   \* the package the operation before removed in normal mode,
                 \* <<>> if that operation was anything else
  resolvedConfig, \* what prettier.resolveConfig gave formatFile
  options,       \* the options formatFile passes to prettier.format
  formatCalls,   \* the parser of each prettier.format call made so far
  installed,     \* the package.json found at each candidate location of
                 \* the name getPackageVersion is asked about
  lookedUp       \* the candidate locations getPackageVersion has tested

vars == <<file, backups, tempEntry, pc, args, originalCode, code, removed,
          removedCount, backupPath, result, report, hist, detected, parserCalled,
          lastRemoved, resolvedConfig, options, formatCalls, installed, lookedUp>>

fsVars == <<file, backups, tempEntry>>
rmVars == <<originalCode, code, removed, removedCount, backupPath, hist>>
anVars == <<detected, parserCalled>>
fmVars == <<resolvedConfig, options, formatCalls>>
pvVars == <<installed, lookedUp>>

NoArgs == [op |-> "none"]
NoHist == [structMatched |-> FALSE, structThrew |-> FALSE, consMatches |-> 0,
           aggrApplied |-> FALSE, aggrMatches |-> 0, cleanupApplied |-> FALSE,
           restored |-> FALSE, wrote |-> FALSE]
NoConfig == [kind |-> "unset", parser |-> "none"]
NoOptions == [parser |-> "none", style |-> "unset"]

Init ==
  /\ file \in Files \cup {NoFile}
  /\ backups = <<>>
  /\ tempEntry = NoFile
  /\ pc = "idle"
  /\ args = NoArgs
  /\ originalCode = NoFile
  /\ code = NoFile
  /\ removed = FALSE
  /\ removedCount = 0
  /\ backupPath = 0
  /\ result = "none"
  /\ report = "none"
  /\ hist = NoHist
  /\ detected = {}
  /\ parserCalled = FALSE
  /\ lastRemoved = <<>>
  /\ resolvedConfig = NoConfig
  /\ options = NoOptions
  /\ formatCalls = <<>>
  /\ installed = NoneInstalled
  /\ lookedUp = <<>>

\* --------------------------------------------------- removePackageFromFile
\* lines 17-31: entry, existence check, read
RemoveCall(pkg, force, aggressive) ==
  /\ pc = "idle"
  /\ force => (Len(backups) < MaxBackups /\ (file # NoFile => MaxWrapsIn(file) < MaxWraps))
  /\ args' = [op |-> "remove", pkg |-> pkg, force |-> force, aggressive |-> aggressive]
  /\ result' = "none"
  /\ report' = "none"
  /\ hist' = NoHist
  /\ removed' = FALSE
  /\ removedCount' = 0
  /\ backupPath' = 0
  /\ IF file = NoFile
     THEN /\ pc' = "rm_catch"
          /\ UNCHANGED <<originalCode, code>>
     ELSE /\ originalCode' = file
          /\ code' = file
          /\ pc' = IF force THEN "rm_backup" ELSE "rm_normal"
  /\ UNCHANGED <<fsVars, anVars, lastRemoved, fmVars, pvVars>>

\* lines 35-38: fs.copyFileSync(filePath, backupPath)
ForceBackup ==
  /\ pc = "rm_backup"
  /\ backups' = Append(backups, file)
  /\ backupPath' = Len(backups) + 1
  /\ pc' = "rm_force_ast"
  /\ UNCHANGED <<file, tempEntry, args, originalCode, code, removed,
                 removedCount, result, report, hist, anVars, lastRemoved, fmVars, pvVars>>

\* lines 40-113: the structural attempt of force mode.  parseThrows: with
\* errorRecovery the parser may throw on broken text or recover;
\* genThrows: generate fails.
ForceAst(parseThrows, genThrows) ==
  /\ pc = "rm_force_ast"
  /\ parseThrows => ~Parses(code)
  /\ LET marks == IF parseThrows THEN 0 ELSE ForceMarkCount(code, args.pkg)
         threw == parseThrows \/ FirstThrow(code) <= Len(code)
                    \/ (marks > 0 /\ genThrows)
     IN /\ genThrows => (~parseThrows /\ FirstThrow(code) > Len(code) /\ marks > 0)
        /\ removed' = (marks > 0)
        /\ removedCount' = marks
        /\ code' = IF marks > 0 /\ ~threw
                   THEN Generate(ForceRemoveNodes(code, args.pkg))
                   ELSE code
        /\ hist' = [hist EXCEPT !.structMatched = (marks > 0), !.structThrew = threw]
  /\ pc' = "rm_conservative"
  /\ UNCHANGED <<fsVars, args, originalCode, backupPath, result, report, anVars,
                 lastRemoved, fmVars, pvVars>>

\* lines 115-143: conservative regex patterns, only if nothing was removed yet
ForceConservative ==
  /\ pc = "rm_conservative"
  /\ IF ~removed
     THEN LET st == ApplyConservative(1, <<code, removed, removedCount>>, args.pkg)
          IN /\ code' = st[1]
             /\ removed' = st[2]
             /\ removedCount' = st[3]
             /\ hist' = [hist EXCEPT !.consMatches = st[3] - removedCount]
     ELSE UNCHANGED <<code, removed, removedCount, hist>>
  /\ pc' = "rm_branch"
  /\ UNCHANGED <<fsVars, args, originalCode, backupPath, result, report, anVars,
                 lastRemoved, fmVars, pvVars>>

\* mutant: the aggressive branch writes its text to the file at once
ForceAggressive_EarlyWrite ==
  /\ pc = "rm_branch"
  /\ ~removed /\ args.aggressive
  /\ LET st == ApplyAggressive(1, <<code, removed, removedCount>>, args.pkg)
     IN /\ code' = CleanupWhitespace(st[1])
        /\ removed' = st[2]
        /\ removedCount' = st[3]
        /\ hist' = [hist EXCEPT !.aggrApplied = TRUE, !.cleanupApplied = TRUE,
                                !.aggrMatches = st[3] - removedCount]
  /\ file' = code'
  /\ pc' = "rm_check"
  /\ UNCHANGED <<backups, tempEntry, args, originalCode, backupPath, result, report,
                 anVars, lastRemoved, fmVars, pvVars>>

\* mutant: the aggressive branch is guarded by the flag alone
ForceAggressive_FlagOnly ==
  /\ pc = "rm_branch"
  /\ args.aggressive
  /\ LET st == ApplyAggressive(1, <<code, removed, removedCount>>, args.pkg)
     IN /\ code' = CleanupWhitespace(st[1])
        /\ removed' = st[2]
        /\ removedCount' = st[3]
        /\ hist' = [hist EXCEPT !.aggrApplied = TRUE, !.cleanupApplied = TRUE,
                                !.aggrMatches = st[3] - removedCount]
  /\ pc' = "rm_check"
  /\ UNCHANGED <<fsVars, args, originalCode, backupPath, result, report, anVars,
                 lastRemoved, fmVars, pvVars>>

\* lines 146-176: aggressive patterns and whitespace cleanup
ForceAggressive ==
  /\ pc = "rm_branch"
  /\ ~removed /\ args.aggressive
  /\ LET st == ApplyAggressive(1, <<code, removed, removedCount>>, args.pkg)
     IN /\ code' = CleanupWhitespace(st[1])
        /\ removed' = st[2]
        /\ removedCount' = st[3]
        /\ hist' = [hist EXCEPT !.aggrApplied = TRUE, !.cleanupApplied = TRUE,
                                !.aggrMatches = st[3] - removedCount]
  /\ pc' = "rm_check"
  /\ UNCHANGED <<fsVars, args, originalCode, backupPath, result, report, anVars,
                 lastRemoved, fmVars, pvVars>>

\* lines 177-188: nothing found, restore from backup and return false
ForceRestore ==
  /\ pc = "rm_branch"
  /\ ~(~removed /\ args.aggressive)
  /\ ~removed
  /\ file' = backups[backupPath]
  /\ backups' = Unlink(backups, backupPath)
  /\ hist' = [hist EXCEPT !.restored = TRUE]
  /\ result' = FALSE
  /\ report' = "nothing-found"
  /\ pc' = "done"
  /\ UNCHANGED <<tempEntry, args, originalCode, code, removed, removedCount,
                 backupPath, anVars, lastRemoved, fmVars, pvVars>>

\* lines 189-192: a strategy succeeded, clean up the backup
ForceCleanupBackup ==
  /\ pc = "rm_branch"
  /\ ~(~removed /\ args.aggressive)
  /\ removed
  /\ backups' = Unlink(backups, backupPath)
  /\ pc' = "rm_check"
  /\ UNCHANGED <<file, tempEntry, args, originalCode, code, removed,
                 removedCount, backupPath, result, report, hist, anVars, lastRemoved,
                 fmVars, pvVars>>

\* lines 193-238: normal mode, exact match on the parsed tree.
\* genThrows: generate fails.
NormalAst(genThrows) ==
  /\ pc = "rm_normal"
  /\ LET n == NormalMatchCount(code, args.pkg)
     IN /\ genThrows => (Parses(code) /\ n > 0)
        /\ IF ~Parses(code)
           THEN /\ pc' = "rm_catch"
                /\ UNCHANGED <<code, removed, removedCount, hist>>
           ELSE /\ removed' = (n > 0)
                /\ removedCount' = n
                /\ hist' = [hist EXCEPT !.structMatched = (n > 0), !.structThrew = genThrows]
                /\ IF genThrows
                   THEN /\ pc' = "rm_catch"
                        /\ UNCHANGED code
                   ELSE /\ pc' = "rm_check"
                        /\ code' = IF n > 0
                                   THEN Generate(NormalRemoveNodes(code, args.pkg))
                                   ELSE code
  /\ UNCHANGED <<fsVars, args, originalCode, backupPath, result, report, anVars,
                 lastRemoved, fmVars, pvVars>>

\* mutant: the not-found path writes the text back
RemoveNotFound_Writes ==
  /\ pc = "rm_check"
  /\ ~removed
  /\ file' = code
  /\ hist' = [hist EXCEPT !.wrote = TRUE]
  /\ result' = FALSE
  /\ report' = "not-found"
  /\ pc' = "done"
  /\ UNCHANGED <<backups, tempEntry, args, originalCode, code, removed, removedCount,
                 backupPath, anVars, lastRemoved, fmVars, pvVars>>

\* lines 240-243
RemoveNotFound ==
  /\ pc = "rm_check"
  /\ ~removed
  /\ result' = FALSE
  /\ report' = "not-found"
  /\ pc' = "done"
  /\ UNCHANGED <<fsVars, args, rmVars, anVars, lastRemoved, fmVars, pvVars>>

\* lines 245-257: fs.writeFileSync(filePath, code)
RemoveWriteBack ==
  /\ pc = "rm_check"
  /\ removed
  /\ file' = code
  /\ hist' = [hist EXCEPT !.wrote = TRUE]
  /\ result' = TRUE
  /\ report' = "removed"
  /\ pc' = "done"
  /\ UNCHANGED <<backups, tempEntry, args, originalCode, code, removed,
                 removedCount, backupPath, anVars, lastRemoved, fmVars, pvVars>>

\* lines 258-261
RemoveCatch ==
  /\ pc = "rm_catch"
  /\ result' = FALSE
  /\ report' = "failed"
  /\ pc' = "done"
  /\ UNCHANGED <<fsVars, args, rmVars, anVars, lastRemoved, fmVars, pvVars>>

\* --------------------------------------------------------------- analyzeFile
\* lines 8-15
AnalyzeCall ==
  /\ pc = "idle"
  /\ args' = [op |-> "analyze"]
  /\ result' = "none"
  /\ report' = "none"
  /\ detected' = {}
  /\ parserCalled' = FALSE
  /\ IF file = NoFile
     THEN /\ pc' = "an_catch"
          /\ UNCHANGED code
     ELSE /\ code' = file
          /\ pc' = "an_try"
  /\ UNCHANGED <<fsVars, originalCode, removed, removedCount, backupPath, hist, lastRemoved,
                 fmVars, pvVars>>

\* mutant: the parser is tried whatever the heuristic says
AnalyzeAst_NoHeuristic ==
  /\ pc = "an_try"
  /\ parserCalled' = TRUE
  /\ IF Parses(code)
     THEN /\ detected' = AstImports(code) \cup AstRequires(code)
          /\ pc' = "an_report"
     ELSE /\ pc' = "an_fallback"
          /\ UNCHANGED detected
  /\ UNCHANGED <<fsVars, args, rmVars, result, report, lastRemoved, fmVars, pvVars>>

\* lines 18-43: structural parse and traversal
AnalyzeAst ==
  /\ pc = "an_try"
  /\ ~LooksLikeWebpack(code)
  /\ parserCalled' = TRUE
  /\ IF Parses(code)
     THEN /\ detected' = AstImports(code) \cup AstRequires(code)
          /\ pc' = "an_report"
     ELSE /\ pc' = "an_fallback"
          /\ UNCHANGED detected
  /\ UNCHANGED <<fsVars, args, rmVars, result, report, lastRemoved, fmVars, pvVars>>

\* lines 44-46
AnalyzeSkipAst ==
  /\ pc = "an_try"
  /\ LooksLikeWebpack(code)
  /\ pc' = "an_fallback"
  /\ UNCHANGED <<fsVars, args, rmVars, result, report, anVars, lastRemoved, fmVars, pvVars>>

\* lines 47-56
AnalyzeFallback ==
  /\ pc = "an_fallback"
  /\ detected' = IF LooksLikeWebpack(code)
                 THEN extractPackagesWithRegex(code) \cup extractWebpackModules(code)
                 ELSE extractPackagesWithRegex(code)
  /\ report' = "fallback"
  /\ pc' = "an_report"
  /\ UNCHANGED <<fsVars, args, rmVars, result, parserCalled, lastRemoved, fmVars, pvVars>>

\* lines 58-66
AnalyzeReport ==
  /\ pc = "an_report"
  /\ report' = IF detected = {} THEN "none-found" ELSE "listed"
  /\ pc' = "done"
  /\ UNCHANGED <<fsVars, args, rmVars, result, anVars, lastRemoved, fmVars, pvVars>>

\* lines 67-69
AnalyzeCatch ==
  /\ pc = "an_catch"
  /\ report' = "failed"
  /\ pc' = "done"
  /\ UNCHANGED <<fsVars, args, rmVars, result, anVars, lastRemoved, fmVars, pvVars>>

Analyze ==
  \/ AnalyzeCall
  \/ AnalyzeAst
  \/ AnalyzeSkipAst
  \/ AnalyzeFallback
  \/ AnalyzeReport
  \/ AnalyzeCatch

\* ------------------------------------------------------------ bundlePackages
\* the bundle command passes on at least one package
PackageLists == UNION {[1..n -> {NameQS}] : n \in 1..MaxPkgs}

\* line 15: one side-effect import per package
ImportCode(packages) ==
  [i \in 1..Len(packages) |-> [k |-> "import", srcs |-> <<packages[i]>>, w |-> <<0>>, h |-> 0]]

\* lines 7-16: report the packages, write the temporary entry file
BundleCall(packages) ==
  /\ pc = "idle"
  /\ args' = [op |-> "bundle", packages |-> packages]
  /\ result' = "none"
  /\ report' = "none"
  /\ tempEntry' = ImportCode(packages)
  /\ pc' = "b_build"
  /\ UNCHANGED <<file, backups, rmVars, anVars, lastRemoved, fmVars, pvVars>>

\* lines 18-26: esbuild.build resolves or rejects
BundleBuild(ok) ==
  /\ pc = "b_build"
  /\ pc' = IF ok THEN "b_unlink" ELSE "b_catch"
  /\ UNCHANGED <<file, backups, tempEntry, args, rmVars, result, report, anVars,
                 lastRemoved, fmVars, pvVars>>

\* lines 28-30
BundleUnlink ==
  /\ pc = "b_unlink"
  /\ tempEntry' = NoFile
  /\ report' = "bundled"
  /\ pc' = "done"
  /\ UNCHANGED <<file, backups, args, rmVars, result, anVars, lastRemoved, fmVars, pvVars>>

\* mutant: the handler rethrows, the rejection reaches the command line
BundleCatch_Rethrows ==
  /\ pc = "b_catch"
  /\ report' = "failed"
  /\ pc' = "uncaught"
  /\ UNCHANGED <<fsVars, args, rmVars, result, anVars, lastRemoved, fmVars, pvVars>>

\* lines 31-33
BundleCatch ==
  /\ pc = "b_catch"
  /\ report' = "failed"
  /\ pc' = "done"
  /\ UNCHANGED <<fsVars, args, rmVars, result, anVars, lastRemoved, fmVars, pvVars>>

Bundle ==
  \/ \E packages \in PackageLists : BundleCall(packages)
  \/ \E ok \in BOOLEAN : BundleBuild(ok)
  \/ BundleUnlink
  \/ BundleCatch

\* ------------------------------------------------------------------ formatFile
\* lines 121-131: entry, existence check, read
FormatCall(path, shouldMinify) ==
  /\ pc = "idle"
  /\ args' = [op |-> "format", path |-> path, minify |-> shouldMinify]
  /\ result' = "none"
  /\ report' = "none"
  /\ IF file = NoFile
     THEN /\ pc' = "f_catch"
          /\ UNCHANGED originalCode
     ELSE /\ originalCode' = file
          /\ pc' = IF shouldMinify THEN "f_minify" ELSE "f_config"
  /\ UNCHANGED <<fsVars, code, removed, removedCount, backupPath, hist, anVars,
                 lastRemoved, fmVars, pvVars>>

\* lines 131-159: minify rejects, or reports an error, or gives the code
FormatMinify(ok) ==
  /\ pc = "f_minify"
  /\ ok => Parses(originalCode)
  /\ IF ok
     THEN /\ code' = Minified(originalCode)
          /\ pc' = "f_write"
     ELSE /\ pc' = "f_catch"
          /\ UNCHANGED code
  /\ UNCHANGED <<fsVars, args, originalCode, removed, removedCount, backupPath,
                 result, report, hist, anVars, lastRemoved, fmVars, pvVars>>

\* lines 163-189
FormatResolveConfig(cfg) ==
  /\ pc = "f_config"
  /\ resolvedConfig' = cfg
  /\ options' = ResolveOptions(cfg, args.path)
  /\ pc' = "f_format"
  /\ UNCHANGED <<fsVars, args, rmVars, result, report, anVars, lastRemoved,
                 formatCalls, pvVars>>

\* lines 191-195: the first prettier.format call
FormatFirst(throws) ==
  /\ pc = "f_format"
  /\ throws \in FormatThrows(options.parser, originalCode)
  /\ formatCalls' = Append(formatCalls, options.parser)
  /\ IF throws
     THEN /\ pc' = "f_retry"
          /\ UNCHANGED code
     ELSE /\ code' = Prettify(originalCode)
          /\ pc' = "f_write"
  /\ UNCHANGED <<fsVars, args, originalCode, removed, removedCount, backupPath,
                 result, report, hist, anVars, lastRemoved, resolvedConfig, options,
                 pvVars>>

\* mutant: the retry keeps the parser that has just failed
FormatRetry_KeepsParser(throws) ==
  /\ pc = "f_retry"
  /\ throws \in FormatThrows(options.parser, originalCode)
  /\ formatCalls' = Append(formatCalls, options.parser)
  /\ IF throws
     THEN /\ pc' = "f_catch"
          /\ UNCHANGED code
     ELSE /\ code' = Prettify(originalCode)
          /\ pc' = "f_write"
  /\ UNCHANGED <<fsVars, args, originalCode, removed, removedCount, backupPath,
                 result, report, hist, anVars, lastRemoved, resolvedConfig, options,
                 pvVars>>

\* lines 193-198: the catch of the first call forces the babel parser and
\* calls prettier.format once more
FormatRetry(throws) ==
  /\ pc = "f_retry"
  /\ options' = [options EXCEPT !.parser = "babel"]
  /\ throws \in FormatThrows("babel", originalCode)
  /\ formatCalls' = Append(formatCalls, "babel")
  /\ IF throws
     THEN /\ pc' = "f_catch"
          /\ UNCHANGED code
     ELSE /\ code' = Prettify(originalCode)
          /\ pc' = "f_write"
  /\ UNCHANGED <<fsVars, args, originalCode, removed, removedCount, backupPath,
                 result, report, hist, anVars, lastRemoved, resolvedConfig, pvVars>>

\* lines 201-230: fs.writeFileSync(filePath, processedCode)
FormatWrite ==
  /\ pc = "f_write"
  /\ file' = code
  /\ result' = TRUE
  /\ report' = IF args.minify THEN "minified" ELSE "formatted"
  /\ pc' = "done"
  /\ UNCHANGED <<backups, tempEntry, args, rmVars, anVars, lastRemoved, fmVars,
                 pvVars>>

\* line 202: fs.writeFileSync throws (the file cannot be written)
FormatWriteThrows ==
  /\ pc = "f_write"
  /\ pc' = "f_catch"
  /\ UNCHANGED <<fsVars, args, rmVars, result, report, anVars, lastRemoved,
                 fmVars, pvVars>>

\* lines 231-248
FormatCatch ==
  /\ pc = "f_catch"
  /\ result' = FALSE
  /\ report' = "failed"
  /\ pc' = "done"
  /\ UNCHANGED <<fsVars, args, rmVars, anVars, lastRemoved, fmVars, pvVars>>

Format ==
  \/ \E path \in FilePaths, shouldMinify \in BOOLEAN : FormatCall(path, shouldMinify)
  \/ \E ok \in BOOLEAN : FormatMinify(ok)
  \/ \E cfg \in Configs : FormatResolveConfig(cfg)
  \/ \E throws \in BOOLEAN : FormatFirst(throws)
  \/ \E throws \in BOOLEAN : FormatRetry(throws)
  \/ FormatWrite
  \/ FormatWriteThrows
  \/ FormatCatch

\* --------------------------------------------------------- getPackageVersion
\* line 259: entry
VersionCall(pkgName) ==
  /\ pc = "idle"
  /\ args' = [op |-> "version", pkgName |-> pkgName]
  /\ result' = "none"
  /\ report' = "none"
  /\ pc' = "v_filter"
  /\ UNCHANGED <<fsVars, rmVars, anVars, lastRemoved, fmVars, pvVars>>

\* lines 261-264: names the filter rejects get 'N/A' at once
VersionFilter ==
  /\ pc = "v_filter"
  /\ IF isLikelyPackageName(args.pkgName)
     THEN /\ pc' = "v_lookup"
          /\ UNCHANGED result
     ELSE /\ result' = "N/A"
          /\ pc' = "done"
  /\ UNCHANGED <<fsVars, args, rmVars, report, anVars, lastRemoved, fmVars, pvVars>>

\* lines 266-301: the candidate locations are tested in order; the first
\* package.json that exists gives its version, or 'N/A' when it has none or
\* cannot be parsed
VersionLookup ==
  /\ pc = "v_lookup"
  /\ LET i == FirstFound(installed)
     IN /\ lookedUp' = IF i = 0 THEN Locations ELSE SubSeq(Locations, 1, i)
        /\ result' = IF i # 0 /\ installed[i] = "ok" THEN Locations[i] ELSE "N/A"
  /\ pc' = "done"
  /\ UNCHANGED <<fsVars, args, rmVars, report, anVars, lastRemoved, fmVars, installed>>

Version ==
  \/ \E pkgName \in PackageNames : VersionCall(pkgName)
  \/ VersionFilter
  \/ VersionLookup

\* the operation has returned to the command line; its locals are gone
Return ==
  /\ pc = "done"
  /\ lastRemoved' = IF args.op = "remove" /\ ~args.force /\ result = TRUE
                    THEN args.pkg
                    ELSE <<>>
  /\ pc' = "idle"
  /\ args' = NoArgs
  /\ originalCode' = NoFile
  /\ code' = NoFile
  /\ removed' = FALSE
  /\ removedCount' = 0
  /\ backupPath' = 0
  /\ hist' = NoHist
  /\ result' = "none"
  /\ report' = "none"
  /\ detected' = {}
  /\ parserCalled' = FALSE
  /\ resolvedConfig' = NoConfig
  /\ options' = NoOptions
  /\ formatCalls' = <<>>
  /\ lookedUp' = <<>>
  /\ UNCHANGED <<fsVars, installed>>

Remove ==
  \/ \E pkg \in Names, force \in BOOLEAN, aggressive \in BOOLEAN :
       RemoveCall(pkg, force, aggressive)
  \/ ForceBackup
  \/ \E parseThrows \in BOOLEAN, genThrows \in BOOLEAN : ForceAst(parseThrows, genThrows)
  \/ ForceConservative
  \/ ForceAggressive
  \/ ForceRestore
  \/ ForceCleanupBackup
  \/ \E genThrows \in BOOLEAN : NormalAst(genThrows)
  \/ RemoveNotFound
  \/ RemoveWriteBack
  \/ RemoveCatch

Next == Remove \/ Analyze \/ Bundle \/ Return

Spec == Init /\ [][Next]_vars

\* formatFile alone
NextFormat == Format \/ Return

SpecFormat == Init /\ [][NextFormat]_vars

\* getPackageVersion alone, in every state of the candidate locations
InitVersion ==
  /\ file = NoFile
  /\ backups = <<>>
  /\ tempEntry = NoFile
  /\ pc = "idle"
  /\ args = NoArgs
  /\ originalCode = NoFile
  /\ code = NoFile
  /\ removed = FALSE
  /\ removedCount = 0
  /\ backupPath = 0
  /\ result = "none"
  /\ report = "none"
  /\ hist = NoHist
  /\ detected = {}
  /\ parserCalled = FALSE
  /\ lastRemoved = <<>>
  /\ resolvedConfig = NoConfig
  /\ options = NoOptions
  /\ formatCalls = <<>>
  /\ installed \in Environments
  /\ lookedUp = <<>>

NextVersion == Version \/ Return

SpecVersion == InitVersion /\ [][NextVersion]_vars

\* ------------------------------------------------------- command dispatcher
\* lines 483-487 of the bundle command: no package was given, the process
\* exits with code 1 and bundlePackages is not called
CliBundleGuard ==
  /\ pc = "idle"
  /\ args' = [op |-> "bundle", packages |-> <<>>]
  /\ pc' = "exit1"
  /\ UNCHANGED <<fsVars, rmVars, result, report, anVars, lastRemoved, fmVars, pvVars>>

\* the tool is started again after process.exit(1)
CliRestart ==
  /\ pc = "exit1"
  /\ args' = NoArgs
  /\ pc' = "idle"
  /\ UNCHANGED <<fsVars, rmVars, result, report, anVars, lastRemoved, fmVars, pvVars>>

\* the exit code of the process: process.exit(1), or an exception that no
\* handler caught
exitCode == IF pc \in {"exit1", "uncaught"} THEN 1 ELSE 0

\* ------------------------------------------------------ filesystem failures
\* line 37 of removePackageFromFile: fs.copyFileSync throws
ForceBackupThrows ==
  /\ pc = "rm_backup"
  /\ pc' = "rm_catch"
  /\ UNCHANGED <<fsVars, args, rmVars, result, report, anVars, lastRemoved,
                 fmVars, pvVars>>

\* line 246 of removePackageFromFile: fs.writeFileSync throws
RemoveWriteThrows ==
  /\ pc = "rm_check"
  /\ removed
  /\ pc' = "rm_catch"
  /\ UNCHANGED <<fsVars, args, rmVars, result, report, anVars, lastRemoved,
                 fmVars, pvVars>>

\* line 16 of bundlePackages: fs.writeFileSync of the entry file throws
BundleWriteThrows(packages) ==
  /\ pc = "idle"
  /\ args' = [op |-> "bundle", packages |-> packages]
  /\ result' = "none"
  /\ report' = "none"
  /\ pc' = "b_catch"
  /\ UNCHANGED <<fsVars, rmVars, anVars, lastRemoved, fmVars, pvVars>>

FsFailure ==
  \/ ForceBackupThrows
  \/ RemoveWriteThrows
  \/ \E packages \in PackageLists : BundleWriteThrows(packages)

\* every command of the tool, with the filesystem allowed to fail
NextCli == Next \/ Format \/ CliBundleGuard \/ CliRestart \/ FsFailure

SpecCli == Init /\ [][NextCli]_vars

\* ====================================================================
\* Properties
\* ====================================================================
RemoveDone == pc = "done" /\ args.op = "remove"
ForceDone == RemoveDone /\ args.force
NormalDone == RemoveDone /\ ~args.force
AnalyzeDone == pc = "done" /\ args.op = "analyze"
BundleDone == pc = "done" /\ args.op = "bundle"

\* the backup file this call created still exists
BackupExists == backupPath # 0 /\ backupPath <= Len(backups)

\* C1: when a force-mode removal returns, the file holds either exactly the
\* text it held before the call or, on success, the complete rewritten text;
\* a failed call leaves the original.
C1_ForceLeavesWholeText ==
  ForceDone =>
    /\ file = originalCode \/ (result = TRUE /\ file = code)
    /\ result = FALSE => file = originalCode

\* C1 witness: the structural step marked a node and then threw part-way,
\* and the call has returned.
C1_Witness ==
  ForceDone /\ hist.structMatched /\ hist.structThrew /\ file = originalCode

\* C2 (as claimed): in force mode, when no strategy removed anything the
\* file was restored from the backup, the backup is gone and the call
\* returned failure, with and without the aggressive flag.
C2_NothingRemovedRestores ==
  (ForceDone /\ backupPath # 0 /\ ~removed) =>
    (hist.restored /\ ~BackupExists /\ result = FALSE)

\* C3 (as claimed): in force mode, when a strategy removed something the
\* backup has been deleted when the call returns success and the rewritten
\* text is in the file, also when the aggressive strategy was the one.
C3_SuccessDeletesBackup ==
  (ForceDone /\ result = TRUE) => (~BackupExists /\ file = code)

\* C4: the aggressive patterns and the whitespace cleanup are applied only
\* with aggressive=true and after the structural step and every conservative
\* pattern matched nothing.
C4_AggressiveOnlyAfterNoMatch ==
  (args.op = "remove" /\ (hist.aggrApplied \/ hist.cleanupApplied)) =>
    (args.force /\ args.aggressive /\ ~hist.structMatched /\ hist.consMatches = 0)

\* C4 witness: aggressive was requested, a conservative pattern matched and
\* the call returned without the aggressive patterns having been applied.
C4_Witness ==
  ForceDone /\ args.aggressive /\ hist.consMatches > 0 /\ ~hist.aggrApplied

\* C5 (as claimed): when bundlePackages has returned, the temporary entry
\* file does not exist, whether the build succeeded or failed.
C5_NoTempEntryAfterBundle == BundleDone => tempEntry = NoFile

\* an import declaration of exactly pkg, or a statement holding a require
\* call of exactly pkg (stated on the text, not through the removal code)
RefersExactly(l, pkg) ==
  \/ l.k = "import" /\ Wraps(l) = 0 /\ l.srcs[1] = pkg
  \/ l.k = "var" /\ Wraps(l) = 0 /\ \E i \in 1..Len(l.srcs) : l.srcs[i] = pkg

NotBlank(l) == l.k \notin {"blank", "pad"}

\* the text with the exactly matching import declarations and require
\* declarators taken out and every other declarator kept
WithoutExactNodes(t, pkg) ==
  LET strip(l) == IF l.k = "var" /\ Wraps(l) = 0
                  THEN VarLine(SelectIdx(l.srcs, LAMBDA i : l.srcs[i] # pkg))
                  ELSE l
      gone(l) == \/ l.k = "import" /\ RefersExactly(l, pkg)
                 \/ l.k = "var" /\ Wraps(l) = 0 /\ strip(l).srcs = <<>>
      kept == SelectIdx(t, LAMBDA i : NotBlank(t[i]) /\ ~gone(t[i]))
  IN [i \in 1..Len(kept) |-> strip(kept[i])]

\* the text with every statement that holds an exactly matching node taken out
WithoutExactStatements(t, pkg) ==
  SelectIdx(t, LAMBDA i : NotBlank(t[i]) /\ ~RefersExactly(t[i], pkg))

\* C6 (as claimed): a successful normal-mode removal takes out all and only
\* the import declarations and require calls of exactly pkg; a require of
\* another package in the same statement stays.
C6_AllAndOnlyNodes ==
  (NormalDone /\ result = TRUE) => file = WithoutExactNodes(originalCode, args.pkg)

\* C6 (amended): a successful normal-mode removal takes out every import
\* declaration of exactly pkg and the whole enclosing statement of every
\* require call of exactly pkg; every other statement is kept, in order.
C6_AllMatchingStatements ==
  (NormalDone /\ result = TRUE) => file = WithoutExactStatements(originalCode, args.pkg)

\* C6 witness: a statement with a matching require and a require of another
\* package has been removed.
C6_Witness ==
  /\ NormalDone /\ result = TRUE
  /\ \E i \in 1..Len(originalCode) :
       /\ originalCode[i] = VarLine(<<NameQ, NameQS>>)
       /\ RefersExactly(originalCode[i], args.pkg)

\* C7: a normal-mode removal that follows a successful normal-mode removal
\* of the same package finds nothing: it reports not-found, returns false
\* and leaves the file as it was.
C7_SecondRemovalIsNoOp ==
  (NormalDone /\ lastRemoved = args.pkg) =>
    (result = FALSE /\ report = "not-found" /\ ~hist.wrote /\ file = originalCode)

\* C7 witness: the second call with the same package has returned.
C7_Witness == NormalDone /\ lastRemoved = args.pkg /\ result = FALSE

\* the file was absent, does not parse, or holds no matching node
NormalNothingToDo ==
  \/ originalCode = NoFile
  \/ ~Parses(originalCode)
  \/ \A i \in 1..Len(originalCode) : ~RefersExactly(originalCode[i], args.pkg)

\* C8: in normal mode no backup is ever created, the file changes only in a
\* call that removed a node and returns true, and a call on a missing file,
\* an unparsable file or a file without a matching node returns false
\* without writing.
C8_NormalFrame ==
  /\ [](NormalDone =>
         /\ backupPath = 0
         /\ hist.wrote => (removed /\ result = TRUE)
         /\ NormalNothingToDo => (result = FALSE /\ ~hist.wrote))
  /\ [][(args.op = "remove" /\ ~args.force) =>
          /\ backups' = backups
          /\ file' # file => (removed /\ result' = TRUE)]_vars

\* C8 witness: the parse threw in normal mode and the call returned false.
C8_Witness ==
  NormalDone /\ originalCode # NoFile /\ ~Parses(originalCode) /\ result = FALSE

\* C9: for a file of fewer than WebpackLineLimit lines that contains the
\* marker, analyzeFile never calls the parser and reports the regex
\* extraction united with the module-map extraction.
C9_BundleHeuristicSkipsParser ==
  (args.op = "analyze" /\ code # NoFile
     /\ LineCount(code) < WebpackLineLimit /\ HasWebpackMarker(code)) =>
    /\ ~parserCalled
    /\ pc = "done" => detected = extractPackagesWithRegex(code) \cup extractWebpackModules(code)

\* C9 witness: such a file with an import has been analyzed.
C9_Witness ==
  /\ AnalyzeDone /\ code # NoFile
  /\ LineCount(code) < WebpackLineLimit /\ HasWebpackMarker(code)
  /\ \E i \in 1..Len(code) : code[i].k = "import"

\* the literal strings of the static imports and require calls of a text
StaticRefs(t) ==
  UNION {{t[i].srcs[n] : n \in 1..Len(t[i].srcs)} :
           i \in {j \in 1..Len(t) : t[j].k \in {"import", "var"} /\ Wraps(t[j]) = 0}}

\* C10 (as claimed): for a file with at least one static import or require
\* of a literal string, analyzeFile reports exactly the set of those
\* strings, on the structural path and on the fallback path.
C10_DetectedIsExact ==
  (AnalyzeDone /\ code # NoFile /\ StaticRefs(code) # {}) => detected = StaticRefs(code)

\* C10 (amended): the same, for the files that take the structural path:
\* those the bundler heuristic does not flag and the parser accepts.
C10_DetectedIsExactOnAstPath ==
  (AnalyzeDone /\ code # NoFile /\ StaticRefs(code) # {}
     /\ ~(LineCount(code) < WebpackLineLimit /\ HasWebpackMarker(code))
     /\ Parses(code)) =>
    (parserCalled /\ detected = StaticRefs(code))

\* C10 witness: a file with references to two packages has been analyzed on
\* the structural path.
C10_Witness ==
  /\ AnalyzeDone /\ parserCalled /\ Parses(code)
  /\ detected = {NameQ, NameQS}

FormatDone == pc = "done" /\ args.op = "format"

VersionDone == pc = "done" /\ args.op = "version"

\* the characters of a registry name
NameChars ==
  {LowerCase[i] : i \in 1..Len(LowerCase)}
    \cup {"0", "1", "2", "3", "4", "5", "6", "7", "8", "9", "-", "_", "."}

\* a regular package name: registry characters, not starting with "." or "_"
RegularShape(name) ==
  /\ name # <<>>
  /\ \A i \in 1..Len(name) : name[i] \in NameChars
  /\ name[1] \notin {".", "_"}

\* a scoped package name: "@scope/name"
ScopedShape(name) ==
  /\ name # <<>>
  /\ name[1] = "@"
  /\ \E i \in 2..Len(name) :
       /\ name[i] = "/"
       /\ RegularShape(SubSeq(name, 2, i - 1))
       /\ RegularShape(SubSeq(name, i + 1, Len(name)))

\* a name the plausibility filter is said to pass
Plausible(name) ==
  /\ Len(name) >= MinNameLen
  /\ Len(name) <= MaxNameLen
  /\ \A i \in 1..Len(name) : name[i] \notin WhitespaceChars
  /\ \E i \in 1..Len(name) : name[i] \notin SymbolChars
  /\ RegularShape(name) \/ ScopedShape(name) \/ MatchesKnownPattern(name)

\* C12: a name within the length bounds, without whitespace, not purely
\* symbolic, and of regular or scoped shape or on the allowlist passes the
\* filter: getPackageVersion goes on to test the candidate locations.
C12_PlausibleNameIsLookedUp ==
  (VersionDone /\ Plausible(args.pkgName)) => lookedUp # <<>>

\* the path names a .ts file
IsTsFile(p) == EndsWith(toLowerCase(p), <<".", "t", "s">>)

\* no parser came from a project configuration: none was resolvable, or the
\* resolved one names no parser
NoConfiguredParser ==
  \/ resolvedConfig.kind \in {"null", "throws"}
  \/ resolvedConfig.kind = "config" /\ resolvedConfig.parser = "none"

C14_OneRetryThenUntouched ==
  /\ Len(formatCalls) <= 2
  /\ pc = "f_retry" => Len(formatCalls) = 1
  /\ Len(formatCalls) = 2 => formatCalls[2] = "babel"
  /\ (FormatDone /\ ~args.minify /\ formatCalls # <<>> /\ code = NoFile) =>
       Len(formatCalls) = 2
  /\ (FormatDone /\ code = NoFile) => (result = FALSE /\ file = originalCode)
  /\ (FormatDone /\ result = FALSE) => file = originalCode

\* both attempts on an existing file threw: false is returned, the file is
\* as it was
C14_Witness ==
  /\ FormatDone /\ ~args.minify
  /\ Len(formatCalls) = 2
  /\ code = NoFile
  /\ result = FALSE
  /\ file # NoFile /\ file = originalCode

\* C15: in force mode the removed flag is never set at write-back while the
\* working text is still the original, so a call that returns true and
\* reports removed references has written a text that differs from the
\* original.
C15_RemovedMeansChanged ==
  /\ (pc = "rm_check" /\ args.op = "remove" /\ args.force /\ removed) =>
       code # originalCode
  /\ (ForceDone /\ result = TRUE /\ report = "removed") => file # originalCode

====
